---- MODULE Spec2Model ----
(***************************************************************************)
(* Model of the authenticated-request pipeline of the Outlook MCP server:  *)
(* AuthManager (token cache, persistence, acquisition order), GraphClient  *)
(* (lazy transport, bearer attachment, status handling), the tools' error  *)
(* formatting (handle_graph_error), save_attachment_to_disk and the auth   *)
(* script outlook_mcp_auth.py.                                             *)
(*                                                                         *)
(* Four specifications share the state: Spec (the server's request         *)
(* pipeline), AuthSpec (an AuthManager used directly, the auth script      *)
(* beside it), SaveSpec (successive saves of attachments) and RaceSpec     *)
(* (saves by two server processes into one directory).                     *)
(*                                                                         *)
(* The server runs every tool call as a coroutine on one asyncio event     *)
(* loop: a call keeps the loop from one real suspension to the next.       *)
(* `running` is the call that holds the loop.  The provider library (MSAL) *)
(* and the remote API are the environment: their outcomes are chosen       *)
(* nondeterministically among the ones the library can produce.            *)
(***************************************************************************)
EXTENDS Integers, Sequences, FiniteSets, TLC

\* ------------------------------------------------------------------ bounds
NumTasks == 2   \* concurrent logical calls
MaxCalls == 3   \* operations started in one run
MaxTok == 3     \* bearer tokens the provider issues in one run
MaxFlows == 1   \* authorization flows begun in one run
MaxSaves == 3   \* attachments saved in one run
MaxAuthCalls == 4   \* AuthManager operations in one run of the manager alone
MaxAuthFlows == 2   \* authorization flows begun in one run of the manager alone
MaxRaceSaves == 1   \* attachments saved while another server process saves
MaxPeerSaves == 1   \* attachments the other server process saves

Tasks == 1..NumTasks
NoTok == 0      \* a provider result without "access_token"; an empty cache slot
Absent == << [section |-> "absent", value |-> <<>>] >>   \* no TokenStore file
NoOut == [kind |-> "none"]

\* ------------------------------------------------------------ state
VARIABLES
    running,      \* the calls holding the event loop: {} or one call
    pc,           \* each call's position
    op,           \* each call's operation
    cache,        \* AuthManager._cache: [acct, user, app]
    dirty,        \* AuthManager._cache.has_state_changed
    file,         \* content of TOKEN_CACHE_PATH: Absent or a sequence of chunks
    expired,      \* bearer ids whose expiry instant has passed (the clock)
    pendingFlow,  \* AuthManager._pending_flow: {} (never assigned) or {flow id}
    consumed,     \* one-time codes the provider has already redeemed
    nextTok,      \* next bearer id the provider will issue
    nextFlow,     \* next flow id
    calls,        \* operations started so far
    client,       \* GraphClient._client: "none", "open", "closed"
    accounts,     \* get_token's local `accounts` (non-empty or not)
    data,         \* write_text's argument: the serialized cache
    result,       \* get_token's / complete_auth's local `result`
    token,        \* request's local `token`
    net,          \* the HTTP request in flight for each call
    resp,         \* whether the awaited HTTP exchange of each call has ended
    ret,          \* how each call's AuthManager / GraphClient method ended
    out,          \* what each tool call's caller receives
    tried,        \* per call: the acquisition sources tried and what they gave
    acq,          \* per call: what each get_token call of the request gave
    nHttp,        \* per call: HTTP requests sent
    held,         \* per call: the in-memory cache when the call began
    changed,      \* per call: the call changed the in-memory cache
    wrote,        \* per call: the call wrote the TokenStore file
    everChanged,  \* the cache has changed since construction
    last,         \* the latest completed get_token, if nothing followed it
    prev,         \* per call: `last` when the call began
    life,         \* app_lifespan: "serving", "closing" (in close()), "stopped"
    transports,   \* httpx.AsyncClient objects created and not closed
    fs,           \* the file system: regular files by absolute path
    spc,          \* save_attachment_to_disk: position
    filename,     \* save_attachment_to_disk: argument `filename`
    content,      \* save_attachment_to_disk: argument `content_bytes`
    safe,         \* save_attachment_to_disk: local `safe_filename`
    target,       \* save_attachment_to_disk: local `target_path`
    counter,      \* save_attachment_to_disk: local `counter`
    sret,         \* save_attachment_to_disk: how the latest call ended
    before,       \* the file system when the latest save call started
    nsaves,       \* save calls started so far
    run,          \* the latest run of successive successful saves of one name
    peer,         \* save_attachment_to_disk running in another server process
    limit,        \* the run's budget: operations, flows begun, saves
    mainpc,       \* outlook_mcp_auth.py: position of main()
    scache,       \* outlook_mcp_auth.py: main's local `cache`
    auth_code,    \* CallbackHandler.auth_code (0 stands for None)
    reply         \* the status CallbackHandler.do_GET answered last (0: none)

vars == <<running, pc, op, cache, dirty, file, expired, pendingFlow, consumed,
          nextTok, nextFlow, calls, client, accounts, data, result, token, net,
          resp, ret, out, tried, acq, nHttp, held, changed, wrote, everChanged, last,
          prev, life, transports, fs, spc, filename, content, safe, target,
          counter, sret, before, nsaves, run, peer, limit, mainpc, scache,
          auth_code, reply>>

pipeVars == <<running, pc, op, cache, dirty, file, expired, pendingFlow,
              consumed, nextTok, nextFlow, calls, client, accounts, data,
              result, token, net, resp, ret, out, tried, acq, nHttp, held,
              changed, wrote, everChanged, last, prev, life, transports,
              limit, mainpc, scache, auth_code, reply>>
shutVars == <<life, transports>>
saveVars == <<fs, spc, filename, content, safe, target, counter, sret, before,
              nsaves, run, peer>>
scriptVars == <<limit, mainpc, scache, auth_code, reply>>

\* ------------------------------------------------- the credential cache
EmptyCache == [acct |-> FALSE, user |-> NoTok, app |-> NoTok]

\* SerializableTokenCache.serialize(): the JSON text, written in two chunks
\* (the account section, then the token section).
Serialize(c) ==
    << [section |-> "Account", value |-> IF c.acct THEN <<1>> ELSE <<>>],
       [section |-> "AccessToken", value |-> <<c.user, c.app>>] >>

\* SerializableTokenCache.deserialize(): the cache a whole blob stands for.
Deserialize(blob) ==
    [acct |-> blob[1].value # <<>>, user |-> blob[2].value[1], app |-> blob[2].value[2]]

Live(tok) == tok # NoTok /\ tok \notin expired

\* _load_cache: the cache after construction, given the file found on disk.
LoadCache(f) == IF f = Absent THEN EmptyCache ELSE Deserialize(f)

\* The files an AuthManager can find at construction: none, or the cache a
\* previous run or the auth script stored (an account with its access token).
InitialFiles == {Absent, Serialize([acct |-> TRUE, user |-> 1, app |-> NoTok])}

\* ------------------------------------------------- the provider library
\* Outcomes of app.acquire_token_silent(scopes, account): a live cached
\* access token is returned as is; otherwise the library may drop the expired
\* entry, then refreshes (a fresh bearer, cached), finds nothing (None) or
\* lets a transport error escape.
AcquireTokenSilent(c) ==
    IF Live(c.user)
    THEN {[tok |-> c.user, cache |-> c, raised |-> FALSE]}
    ELSE {[tok |-> NoTok, cache |-> b, raised |-> r] :
              b \in {c, [c EXCEPT !.user = NoTok]}, r \in BOOLEAN}
         \cup (IF nextTok <= MaxTok
               THEN {[tok |-> nextTok, cache |-> [c EXCEPT !.user = nextTok],
                      raised |-> FALSE]}
               ELSE {})

\* Outcomes of app.acquire_token_for_client(scopes=[".default"]): the same
\* for the app-only token.
AcquireTokenForClient(c) ==
    IF Live(c.app)
    THEN {[tok |-> c.app, cache |-> c, raised |-> FALSE]}
    ELSE {[tok |-> NoTok, cache |-> b, raised |-> r] :
              b \in {c, [c EXCEPT !.app = NoTok]}, r \in BOOLEAN}
         \cup (IF nextTok <= MaxTok
               THEN {[tok |-> nextTok, cache |-> [c EXCEPT !.app = nextTok],
                      raised |-> FALSE]}
               ELSE {})

\* self._cache.has_state_changed, as _save_cache reads it
AlwaysChanged == TRUE
HasStateChanged == dirty

\* `result and "access_token" in result`
HasAccessToken(r) == r # NoTok

\* `if accounts:` the silent step is taken only with an account in the cache
SilentAlways(accts) == TRUE
SilentAttempted(accts) == accts

\* ------------------------------------------------- the event loop
\* The positions where a coroutine really yields to the event loop: between
\* calls, and at `await client.request(...)`.  get_token awaits nothing.
SuspendsInWrite(p) == p \in {"idle", "http_wait", "done", "write1", "write2"}
Suspends(p) == p \in {"idle", "http_wait", "done"}

\* A call takes a step when it holds the loop, or when nobody does.
Sched(t) == running \subseteq {t}

Holder(t, p) == IF Suspends(p) THEN {} ELSE {t}

\* The calls that have TOKEN_CACHE_PATH open for writing.
Writers == {t \in Tasks : pc[t] \in {"write1", "write2", "close"}}

\* write(2) of one chunk at the writer's own offset.
Hole == [section |-> "hole", value |-> <<>>]
WriteAt(f, i, chunk) ==
    [k \in 1..(IF Len(f) > i THEN Len(f) ELSE i) |->
        IF k = i THEN chunk ELSE IF k <= Len(f) THEN f[k] ELSE Hole]

\* ------------------------------------------------- responses and errors
\* What the remote API can answer: a status, a body (JSON carrying
\* error.message, other text, or nothing) and an optional Retry-After header
\* (a string of characters); or nothing within the deadline.
Digits == <<"0", "1", "2", "3", "4", "5", "6", "7", "8", "9">>
RetryAfterValues == { <<"5">>, <<"0", "6", "0">> }
ErrorStatuses == {400, 401, 403, 404, 429, 500}
Responses ==
    {[kind |-> "response", status |-> 200, body |-> b, retry |-> <<>>] :
         b \in {"json", "empty"}}
    \cup {[kind |-> "response", status |-> 204, body |-> "empty", retry |-> <<>>]}
    \cup {[kind |-> "response", status |-> st, body |-> b, retry |-> <<>>] :
              st \in ErrorStatuses, b \in {"json", "text"}}
    \cup {[kind |-> "response", status |-> 429, body |-> "json", retry |-> <<v>>] :
              v \in RetryAfterValues}
    \cup {[kind |-> "timeout"]}

\* Response.is_success, which raise_for_status tests
IsSuccess(status) == status >= 200 /\ status < 300

HTTPStatusError(r) == [type |-> "HTTPStatusError", response |-> r]
TimeoutException == [type |-> "TimeoutException", msg |-> "timed out"]
AuthRequiredMsg ==
    "No valid token available. Run the auth setup script first: python outlook_mcp_auth.py"
RuntimeError == [type |-> "RuntimeError", msg |-> AuthRequiredMsg]
OtherError(ty) == [type |-> ty, msg |-> "str(e)"]
\* response.json() on a body that is not JSON; doc is the text it was given
JSONDecodeError(body) ==
    [type |-> "JSONDecodeError", msg |-> "str(e)", doc |-> body]

\* The default handle_graph_error gives headers.get("Retry-After", ...)
DefaultRetryAfter30 == <<"3", "0">>
DefaultRetryAfter == <<"6", "0">>

Msg401 == "Error 401: Authentication failed. Token may be expired. Re-run auth setup: python outlook_mcp_auth.py\nDetail: "
Msg403 == "Error 403: Insufficient permissions. Check app registration scopes.\nDetail: "
Msg404 == "Error 404: Resource not found. Verify the ID is correct.\nDetail: "
Msg429 == "Error 429: Rate limited. Retry after "
MsgTimeout == "Error: Request timed out. The Graph API may be slow. Please retry."

\* The same with the 403 branch missing (403 falls to the generic branch).
handle_graph_error_no403(e) ==
    IF e.type = "HTTPStatusError"
    THEN LET status == e.response.status
             error_msg == IF e.response.body = "json"
                          THEN "error.message" ELSE "str(e)"
             retry_after == IF e.response.retry = <<>>
                            THEN DefaultRetryAfter ELSE e.response.retry[1]
         IN  CASE status = 401 -> <<Msg401, error_msg>>
               [] status = 404 -> <<Msg404, error_msg>>
               [] status = 429 -> <<Msg429>> \o retry_after \o <<" seconds.">>
               [] OTHER -> <<"Error ", ToString(status), ": ", error_msg>>
    ELSE IF e.type = "TimeoutException"
    THEN <<MsgTimeout>>
    ELSE <<"Error: ", e.type, ": ", e.msg>>

\* The same with the timeout branch missing.
handle_graph_error_noTimeout(e) ==
    IF e.type = "HTTPStatusError"
    THEN LET status == e.response.status
             error_msg == IF e.response.body = "json"
                          THEN "error.message" ELSE "str(e)"
             retry_after == IF e.response.retry = <<>>
                            THEN DefaultRetryAfter ELSE e.response.retry[1]
         IN  CASE status = 401 -> <<Msg401, error_msg>>
               [] status = 403 -> <<Msg403, error_msg>>
               [] status = 404 -> <<Msg404, error_msg>>
               [] status = 429 -> <<Msg429>> \o retry_after \o <<" seconds.">>
               [] OTHER -> <<"Error ", ToString(status), ": ", error_msg>>
    ELSE <<"Error: ", e.type, ": ", e.msg>>

\* handle_graph_error(e): the text a tool returns for exception e, as the
\* sequence of the pieces the f-string joins.
handle_graph_error(e) ==
    IF e.type = "HTTPStatusError"
    THEN LET status == e.response.status
             error_msg == IF e.response.body = "json"
                          THEN "error.message" ELSE "str(e)"
             retry_after == IF e.response.retry = <<>>
                            THEN DefaultRetryAfter ELSE e.response.retry[1]
         IN  CASE status = 401 -> <<Msg401, error_msg>>
               [] status = 403 -> <<Msg403, error_msg>>
               [] status = 404 -> <<Msg404, error_msg>>
               [] status = 429 -> <<Msg429>> \o retry_after \o <<" seconds.">>
               [] OTHER -> <<"Error ", ToString(status), ": ", error_msg>>
    ELSE IF e.type = "TimeoutException"
    THEN <<MsgTimeout>>
    ELSE <<"Error: ", e.type, ": ", e.msg>>

\* What the tool-calling client receives: the tool function returns a str.
ToolResult(text) == [text |-> text]

\* GraphClient.request from the response on (lines 138-144), and the tool's
\* try/except around it: the method's outcome and the text returned.
RequestOutcome(r) ==
    IF r.kind = "timeout" THEN [kind |-> "raise", exc |-> TimeoutException]
    ELSE IF ~IsSuccess(r.status) THEN [kind |-> "raise", exc |-> HTTPStatusError(r)]
    ELSE IF r.status = 204 THEN [kind |-> "value", value |-> "status: success"]
    ELSE IF r.body = "json" THEN [kind |-> "value", value |-> "json data"]
    ELSE [kind |-> "raise", exc |-> JSONDecodeError(r.body)]

\* The same with the exception dropped.
ToolTextSwallow(o) == <<"formatted: ", "">>
ToolText(o) ==
    IF o.kind = "raise" THEN handle_graph_error(o.exc)
    ELSE <<"formatted: ", o.value>>

\* ------------------------------------------------- initial state
NoReq == [kind |-> "none"]
NoRet == [kind |-> "none"]
NoLast == [kind |-> "none"]

\* After app_lifespan has built AuthManager (which loads the file once) and
\* GraphClient (no transport yet); no call has arrived.  The auth script is
\* not running.
PipelineInit ==
    /\ file \in InitialFiles
    /\ cache = LoadCache(file)
    /\ dirty = FALSE
    /\ expired = {}
    /\ pendingFlow = {}
    /\ consumed = {}
    /\ nextTok = (IF file = Absent THEN 1 ELSE 2)
    /\ nextFlow = 1
    /\ calls = 0
    /\ client = "none"
    /\ running = {}
    /\ pc = [t \in Tasks |-> "idle"]
    /\ op = [t \in Tasks |-> "none"]
    /\ accounts = [t \in Tasks |-> FALSE]
    /\ data = [t \in Tasks |-> <<>>]
    /\ result = [t \in Tasks |-> NoTok]
    /\ token = [t \in Tasks |-> NoTok]
    /\ net = [t \in Tasks |-> NoReq]
    /\ resp = [t \in Tasks |-> FALSE]
    /\ ret = [t \in Tasks |-> NoRet]
    /\ out = [t \in Tasks |-> NoOut]
    /\ tried = [t \in Tasks |-> <<>>]
    /\ acq = [t \in Tasks |-> <<>>]
    /\ nHttp = [t \in Tasks |-> 0]
    /\ held = [t \in Tasks |-> EmptyCache]
    /\ changed = [t \in Tasks |-> FALSE]
    /\ wrote = [t \in Tasks |-> FALSE]
    /\ everChanged = FALSE
    /\ last = NoLast
    /\ prev = [t \in Tasks |-> NoLast]
    /\ life = "serving"
    /\ transports = 0
    /\ mainpc = "off"
    /\ scache = EmptyCache
    /\ auth_code = 0
    /\ reply = 0

provVars == <<expired, consumed, nextFlow>>
httpVars == <<client, net, resp>>
localVars == <<accounts, data, result, token>>
logVars == <<tried, acq, nHttp, held, changed, wrote, prev>>

\* ------------------------------------------------- steps shared by the calls
Goto(t, p) ==
    /\ pc' = [pc EXCEPT ![t] = p]
    /\ running' = Holder(t, p)

\* A finished call's answer is handed to its caller before anything else
\* happens (nothing reads it afterwards).
Delivered == \A u \in Tasks : pc[u] # "done"

\* A call arrives, takes the lowest free slot and gets the loop.
Begin(t, o) ==
    /\ pc[t] = "idle"
    /\ \A u \in Tasks : u < t => pc[u] # "idle"
    /\ Sched(t)
    /\ Delivered
    /\ calls < limit.calls
    /\ life = "serving"
    /\ calls' = calls + 1
    /\ op' = [op EXCEPT ![t] = o]
    /\ held' = [held EXCEPT ![t] = cache]
    /\ prev' = [prev EXCEPT ![t] = last]

\* A provider call returns outcome o: the library has updated the cache in
\* memory and set has_state_changed when it added or removed an entry.
ProviderEffect(t, o) ==
    /\ cache' = o.cache
    /\ dirty' = (dirty \/ o.cache # cache)
    /\ everChanged' = (everChanged \/ o.cache # cache)
    /\ changed' = [changed EXCEPT ![t] = @ \/ o.cache # cache]
    /\ nextTok' = (IF o.tok = nextTok THEN nextTok + 1 ELSE nextTok)

\* An exception leaves GraphClient.request: the tool's `except Exception`
\* turns it into text.
Raise(t, e) ==
    /\ ret' = [ret EXCEPT ![t] = [kind |-> "raise", exc |-> e]]
    /\ out' = [out EXCEPT ![t] = ToolResult(handle_graph_error(e))]
    /\ Goto(t, "done")

\* ------------------------------------------------- GraphClient.request
\* A tool calls graph.get/post/...: request() starts and enters get_token.
StartRequest(t) ==
    /\ Begin(t, "request")
    /\ Goto(t, "get_accounts")
    /\ UNCHANGED <<cache, dirty, file, pendingFlow, nextTok, everChanged, last,
                   provVars, httpVars, localVars, ret, out, tried, acq, nHttp,
                   changed, wrote>>
    /\ UNCHANGED <<shutVars, saveVars, scriptVars>>

\* get_token called on the AuthManager itself.
StartGetToken(t) ==
    /\ Begin(t, "get_token")
    /\ Goto(t, "get_accounts")
    /\ UNCHANGED <<cache, dirty, file, pendingFlow, nextTok, everChanged, last,
                   provVars, httpVars, localVars, ret, out, tried, acq, nHttp,
                   changed, wrote>>
    /\ UNCHANGED <<shutVars, saveVars, scriptVars>>

\* get_accounts reading the file again instead of the cache in memory.
GetAccountsReload(t) ==
    /\ pc[t] = "get_accounts"
    /\ Sched(t)
    /\ accounts' = [accounts EXCEPT ![t] = LoadCache(file).acct]
    /\ Goto(t, IF SilentAttempted(LoadCache(file).acct) THEN "silent" ELSE "app")
    /\ UNCHANGED <<op, calls, cache, dirty, file, pendingFlow, nextTok,
                   everChanged, last, provVars, httpVars, data, result, token,
                   ret, out, logVars>>
    /\ UNCHANGED <<shutVars, saveVars, scriptVars>>

\* get_token, line 83-85: accounts = self.app.get_accounts(); if accounts:
\* The accounts are those of the cache in memory.
GetAccounts(t) ==
    /\ pc[t] = "get_accounts"
    /\ Sched(t)
    /\ accounts' = [accounts EXCEPT ![t] = cache.acct]
    /\ Goto(t, IF SilentAttempted(cache.acct) THEN "silent" ELSE "app")
    /\ UNCHANGED <<op, calls, cache, dirty, file, pendingFlow, nextTok,
                   everChanged, last, provVars, httpVars, data, result, token,
                   ret, out, logVars>>
    /\ UNCHANGED <<shutVars, saveVars, scriptVars>>

\* get_token, line 86-87: the silent provider call returns.
SilentReturn(t) ==
    /\ pc[t] = "silent"
    /\ Sched(t)
    /\ \E o \in AcquireTokenSilent(cache) :
        /\ ProviderEffect(t, o)
        /\ result' = [result EXCEPT ![t] = o.tok]
        /\ tried' = [tried EXCEPT ![t] =
                        Append(@, [src |-> "silent", tok |-> o.tok])]
        /\ IF o.raised
           THEN /\ Raise(t, OtherError("ConnectionError"))
                /\ acq' = [acq EXCEPT ![t] = Append(@, "ConnectionError")]
                /\ last' = NoLast
           ELSE /\ Goto(t, IF HasAccessToken(o.tok) THEN "save" ELSE "app")
                /\ UNCHANGED <<ret, out, last, acq>>
    /\ UNCHANGED <<op, calls, file, pendingFlow, provVars, httpVars, accounts,
                   data, token, nHttp, held, wrote, prev>>
    /\ UNCHANGED <<shutVars, saveVars, scriptVars>>

\* get_token, line 92-102: the app-only provider call returns; without an
\* access token get_token raises RuntimeError.
AppReturn(t) ==
    /\ pc[t] = "app"
    /\ Sched(t)
    /\ \E o \in AcquireTokenForClient(cache) :
        /\ ProviderEffect(t, o)
        /\ result' = [result EXCEPT ![t] = o.tok]
        /\ tried' = [tried EXCEPT ![t] =
                        Append(@, [src |-> "app", tok |-> o.tok])]
        /\ IF o.raised
           THEN /\ Raise(t, OtherError("ConnectionError"))
                /\ acq' = [acq EXCEPT ![t] = Append(@, "ConnectionError")]
                /\ last' = NoLast
           ELSE IF HasAccessToken(o.tok)
           THEN /\ Goto(t, "save")
                /\ UNCHANGED <<ret, out, last, acq>>
           ELSE /\ Raise(t, RuntimeError)
                /\ acq' = [acq EXCEPT ![t] = Append(@, "RuntimeError")]
                /\ last' = NoLast
    /\ UNCHANGED <<op, calls, file, pendingFlow, provVars, httpVars, accounts,
                   data, token, nHttp, held, wrote, prev>>
    /\ UNCHANGED <<shutVars, saveVars, scriptVars>>

\* What follows _save_cache(): get_token returns result["access_token"] to
\* request (line 89/97, 132); complete_auth returns result (line 78).
AfterSave(t) ==
    IF op[t] = "request"
    THEN /\ token' = [token EXCEPT ![t] = result[t]]
         /\ acq' = [acq EXCEPT ![t] = Append(@, ToString(result[t]))]
         /\ last' = [kind |-> "token", tok |-> result[t], held |-> held[t]]
         /\ Goto(t, "get_client")
         /\ UNCHANGED ret
    ELSE /\ ret' = [ret EXCEPT ![t] = [kind |-> "value", value |-> result[t]]]
         /\ Goto(t, "done")
         /\ UNCHANGED <<token, last, acq>>

\* _save_cache, line 48-49: with the flag clear nothing is written; with it
\* set, serialize() (which clears the flag) gives write_text its argument.
SaveCache(t) ==
    /\ pc[t] = "save"
    /\ Sched(t)
    /\ IF HasStateChanged
       THEN /\ data' = [data EXCEPT ![t] = Serialize(cache)]
            /\ dirty' = FALSE
            /\ Goto(t, "open")
            /\ UNCHANGED <<token, last, ret, acq>>
       ELSE /\ AfterSave(t)
            /\ UNCHANGED <<data, dirty>>
    /\ UNCHANGED <<op, calls, cache, file, pendingFlow, nextTok, everChanged,
                   provVars, httpVars, accounts, result, out, tried, nHttp,
                   held, changed, wrote, prev>>
    /\ UNCHANGED <<shutVars, saveVars, scriptVars>>

\* write_text: open(path, "w") creates or truncates the file.
OpenFile(t) ==
    /\ pc[t] = "open"
    /\ Sched(t)
    /\ file' = <<>>
    /\ wrote' = [wrote EXCEPT ![t] = TRUE]
    /\ Goto(t, "write1")
    /\ UNCHANGED <<op, calls, cache, dirty, pendingFlow, nextTok, everChanged,
                   last, provVars, httpVars, localVars, ret, out, tried, acq,
                   nHttp, held, changed, prev>>
    /\ UNCHANGED <<shutVars, saveVars, scriptVars>>

\* write_text: the data goes out chunk by chunk at the writer's offset.
WriteChunk(t) ==
    /\ pc[t] \in {"write1", "write2"}
    /\ Sched(t)
    /\ LET i == IF pc[t] = "write1" THEN 1 ELSE 2
       IN  /\ file' = WriteAt(file, i, data[t][i])
           /\ Goto(t, IF i = 1 THEN "write2" ELSE "close")
    /\ UNCHANGED <<op, calls, cache, dirty, pendingFlow, nextTok, everChanged,
                   last, provVars, httpVars, localVars, ret, out, logVars>>
    /\ UNCHANGED <<shutVars, saveVars, scriptVars>>

\* write_text: the file is closed and _save_cache returns.
CloseFile(t) ==
    /\ pc[t] = "close"
    /\ Sched(t)
    /\ AfterSave(t)
    /\ UNCHANGED <<op, calls, cache, dirty, file, pendingFlow, nextTok,
                   everChanged, provVars, httpVars, accounts, data, result, out,
                   tried, nHttp, held, changed, wrote, prev>>
    /\ UNCHANGED <<shutVars, saveVars, scriptVars>>

\* _get_client, line 117-122: a transport is made only when there is none or
\* the one there is closed.  get_token's frame and the record of what it did
\* are gone by now.
NeedsTransportAlways(c) == TRUE
NeedsTransport(c) == c \in {"none", "closed"}

GetClient(t) ==
    /\ pc[t] = "get_client"
    /\ Sched(t)
    /\ client' = (IF NeedsTransport(client) THEN "open" ELSE client)
    /\ transports' = (IF NeedsTransport(client) THEN transports + 1
                      ELSE transports)
    /\ accounts' = [accounts EXCEPT ![t] = FALSE]
    /\ data' = [data EXCEPT ![t] = <<>>]
    /\ result' = [result EXCEPT ![t] = NoTok]
    /\ tried' = [tried EXCEPT ![t] = <<>>]
    /\ held' = [held EXCEPT ![t] = EmptyCache]
    /\ changed' = [changed EXCEPT ![t] = FALSE]
    /\ wrote' = [wrote EXCEPT ![t] = FALSE]
    /\ prev' = [prev EXCEPT ![t] = NoLast]
    /\ Goto(t, "send")
    /\ UNCHANGED <<op, calls, cache, dirty, file, pendingFlow, nextTok,
                   everChanged, last, provVars, net, resp, token, ret, out,
                   acq, nHttp>>
    /\ UNCHANGED <<life, saveVars, scriptVars>>

\* request, line 134-140: the headers are built from the local token and the
\* request goes out; the coroutine waits for the response.
HeadersWithoutToken(tok) ==
    [Authorization |-> <<"Bearer", NoTok>>, ContentType |-> "application/json"]
Headers(tok) ==
    [Authorization |-> <<"Bearer", tok>>, ContentType |-> "application/json"]

\* The same sending the request twice.
SendRequestTwice(t) ==
    /\ pc[t] = "send"
    /\ Sched(t)
    /\ net' = [net EXCEPT ![t] = [kind |-> "request", headers |-> Headers(token[t])]]
    /\ nHttp' = [nHttp EXCEPT ![t] = @ + 2]
    /\ Goto(t, "http_wait")
    /\ UNCHANGED <<op, calls, cache, dirty, file, pendingFlow, nextTok,
                   everChanged, last, provVars, client, resp, localVars, ret,
                   out, tried, acq, held, changed, wrote, prev>>
    /\ UNCHANGED <<shutVars, saveVars, scriptVars>>

SendRequest(t) ==
    /\ pc[t] = "send"
    /\ Sched(t)
    /\ net' = [net EXCEPT ![t] = [kind |-> "request", headers |-> Headers(token[t])]]
    /\ nHttp' = [nHttp EXCEPT ![t] = @ + 1]
    /\ Goto(t, "http_wait")
    /\ UNCHANGED <<op, calls, cache, dirty, file, pendingFlow, nextTok,
                   everChanged, last, provVars, client, resp, localVars, ret,
                   out, tried, acq, held, changed, wrote, prev>>
    /\ UNCHANGED <<shutVars, saveVars, scriptVars>>

\* The remote API has answered, or the 30 s deadline has passed: the await
\* can complete.
Respond(t) ==
    /\ pc[t] = "http_wait"
    /\ ~resp[t]
    /\ Delivered
    /\ resp' = [resp EXCEPT ![t] = TRUE]
    /\ UNCHANGED <<running, pc, op, calls, cache, dirty, file, pendingFlow,
                   nextTok, everChanged, last, provVars, client, net, localVars,
                   ret, out, logVars>>
    /\ UNCHANGED <<shutVars, saveVars, scriptVars>>

\* request, line 138-144, and the tool around it: the coroutine resumes with
\* response r (or the timeout), and the tool returns its text.
Resume(t) ==
    /\ pc[t] = "http_wait"
    /\ resp[t]
    /\ Sched(t)
    /\ Delivered
    /\ \E r \in Responses :
        LET o == RequestOutcome(r)
        IN  /\ ret' = [ret EXCEPT ![t] = o]
            /\ out' = [out EXCEPT ![t] = ToolResult(ToolText(o))]
    /\ Goto(t, "done")
    /\ UNCHANGED <<op, calls, cache, dirty, file, pendingFlow, nextTok,
                   everChanged, last, provVars, httpVars, localVars, logVars>>
    /\ UNCHANGED <<shutVars, saveVars, scriptVars>>

\* The caller has its answer; the call's frame is gone.
Finish(t) ==
    /\ pc[t] = "done"
    /\ pc' = [pc EXCEPT ![t] = "idle"]
    /\ op' = [op EXCEPT ![t] = "none"]
    /\ accounts' = [accounts EXCEPT ![t] = FALSE]
    /\ data' = [data EXCEPT ![t] = <<>>]
    /\ result' = [result EXCEPT ![t] = NoTok]
    /\ token' = [token EXCEPT ![t] = NoTok]
    /\ net' = [net EXCEPT ![t] = NoReq]
    /\ resp' = [resp EXCEPT ![t] = FALSE]
    /\ ret' = [ret EXCEPT ![t] = NoRet]
    /\ out' = [out EXCEPT ![t] = NoOut]
    /\ tried' = [tried EXCEPT ![t] = <<>>]
    /\ acq' = [acq EXCEPT ![t] = <<>>]
    /\ nHttp' = [nHttp EXCEPT ![t] = 0]
    /\ held' = [held EXCEPT ![t] = EmptyCache]
    /\ changed' = [changed EXCEPT ![t] = FALSE]
    /\ wrote' = [wrote EXCEPT ![t] = FALSE]
    /\ prev' = [prev EXCEPT ![t] = NoLast]
    /\ UNCHANGED <<running, calls, cache, dirty, file, pendingFlow, nextTok,
                   everChanged, last, provVars, client>>
    /\ UNCHANGED <<shutVars, saveVars, scriptVars>>

\* ------------------------------------------------- interactive authorization
\* get_auth_url, line 62-70: a new flow is begun and kept in _pending_flow.
GetAuthUrl(t) ==
    /\ Begin(t, "get_auth_url")
    /\ nextFlow <= limit.flows
    /\ pendingFlow' = {nextFlow}
    /\ nextFlow' = nextFlow + 1
    /\ ret' = [ret EXCEPT ![t] = [kind |-> "value", value |-> nextFlow]]
    /\ last' = NoLast
    /\ Goto(t, "done")
    /\ UNCHANGED <<cache, dirty, file, nextTok, everChanged, expired, consumed,
                   httpVars, localVars, out, tried, acq, nHttp, changed, wrote>>
    /\ UNCHANGED <<shutVars, saveVars, scriptVars>>

\* The exchange putting the token, but no account, into the cache.
AcquireTokenByAuthCodeFlowNoAccount(c, ar) ==
    {[tok |-> NoTok, cache |-> c, raised |-> FALSE]}
    \cup (IF ar.code \notin consumed /\ nextTok <= MaxTok
          THEN {[tok |-> nextTok, cache |-> [c EXCEPT !.user = nextTok],
                 raised |-> FALSE]}
          ELSE {})
\* Outcomes of app.acquire_token_by_auth_code_flow(flow, auth_response) for a
\* response that belongs to the flow: a fresh or unredeemed code may be
\* exchanged (an account and its token enter the cache); a redeemed code, or
\* a provider failure, gives an error dict and leaves the cache alone.
AcquireTokenByAuthCodeFlow(c, ar) ==
    {[tok |-> NoTok, cache |-> c, raised |-> FALSE]}
    \cup (IF ar.code \notin consumed /\ nextTok <= MaxTok
          THEN {[tok |-> nextTok,
                 cache |-> [c EXCEPT !.acct = TRUE, !.user = nextTok],
                 raised |-> FALSE]}
          ELSE {})

\* The callback parameters a caller can hand to complete_auth.
AuthResponses == {[state |-> f, code |-> f] : f \in 1..limit.flows}

\* The library's ValueError for a response whose state is not the flow's:
\* "state mismatch: {got} vs {want}".
StateMismatch(got, want) ==
    [type |-> "ValueError", msg |-> "str(e)", got |-> got, want |-> want]

\* `self._pending_flow` can be read: get_auth_url has assigned it.
HasPendingFlowAlways(pf) == TRUE
HasPendingFlow(pf) == pf # {}

\* complete_auth, line 72-76: reading self._pending_flow fails when it was
\* never assigned; the library rejects a response whose state is not the
\* flow's; otherwise the code is exchanged.  _save_cache follows (line 77).
CompleteAuth(t) ==
    /\ Begin(t, "complete_auth")
    /\ last' = NoLast
    /\ \E ar \in AuthResponses :
        IF ~HasPendingFlow(pendingFlow)
        THEN /\ Raise(t, OtherError("AttributeError"))
             /\ UNCHANGED <<cache, dirty, everChanged, changed, nextTok,
                            consumed, result, tried>>
        ELSE IF ar.state \notin pendingFlow
        THEN /\ Raise(t, StateMismatch(ar.state, pendingFlow))
             /\ UNCHANGED <<cache, dirty, everChanged, changed, nextTok,
                            consumed, result, tried>>
        ELSE \E o \in AcquireTokenByAuthCodeFlow(cache, ar) :
             /\ ProviderEffect(t, o)
             /\ consumed' = (IF HasAccessToken(o.tok)
                             THEN consumed \cup {ar.code} ELSE consumed)
             /\ result' = [result EXCEPT ![t] = o.tok]
             /\ tried' = [tried EXCEPT ![t] =
                             Append(@, [src |-> "code", tok |-> o.tok,
                                        spent |-> ar.code \in consumed])]
             /\ Goto(t, "save")
             /\ UNCHANGED <<ret, out>>
    /\ UNCHANGED <<file, pendingFlow, expired, nextFlow, httpVars, accounts,
                   data, token, acq, nHttp, wrote>>
    /\ UNCHANGED <<shutVars, saveVars, scriptVars>>

\* ------------------------------------------------- the clock
\* Time passes the expiry instant of an issued bearer token.
Expire ==
    /\ Delivered
    /\ \E k \in 1..(nextTok - 1) :
        /\ k \notin expired
        /\ expired' = expired \cup {k}
    /\ UNCHANGED <<running, pc, op, calls, cache, dirty, file, pendingFlow,
                   consumed, nextTok, nextFlow, everChanged, last, httpVars,
                   localVars, ret, out, logVars>>
    /\ UNCHANGED <<shutVars, saveVars, scriptVars>>

\* ------------------------------------------------- pathlib (POSIX flavour)
\* A string is a sequence of characters; a path is a sequence of components.

\* The pieces of s between its "/" separators.
RECURSIVE Split(_)
Split(s) ==
    IF \A i \in DOMAIN s : s[i] # "/" THEN <<s>>
    ELSE LET i == CHOOSE i \in DOMAIN s :
                      s[i] = "/" /\ \A j \in 1..(i - 1) : s[j] # "/"
         IN  <<SubSeq(s, 1, i - 1)>> \o Split(SubSeq(s, i + 1, Len(s)))

\* Path(s).parts without the root: empty and "." components are dropped,
\* ".." components are kept.
IsComponent(c) == c # <<>> /\ c # <<".">>
Parts(s) == SelectSeq(Split(s), IsComponent)

\* Path(s).name: the last component, "" when there is none.
PathNameKeepAll(s) == s
PathName(s) == IF Parts(s) = <<>> THEN <<>> ELSE Parts(s)[Len(Parts(s))]

\* name.rfind("."), 1-based; 0 when there is no dot.
LastDot(n) ==
    IF \A i \in DOMAIN n : n[i] # "." THEN 0
    ELSE CHOOSE i \in DOMAIN n : n[i] = "." /\ \A j \in (i + 1)..Len(n) : n[j] # "."

\* Path(s).suffix and Path(s).stem: the name is split at its last dot unless
\* that dot is its first or its last character.
HasSuffix(n) == LastDot(n) > 1 /\ LastDot(n) < Len(n)
Suffix(s) ==
    LET n == PathName(s)
    IN  IF HasSuffix(n) THEN SubSeq(n, LastDot(n), Len(n)) ELSE <<>>
Stem(s) ==
    LET n == PathName(s)
    IN  IF HasSuffix(n) THEN SubSeq(n, 1, LastDot(n) - 1) ELSE n

\* str(n) for a natural number
RECURSIVE Str(_)
Str(n) == IF n < 10 THEN <<Digits[n + 1]>>
          ELSE Str(n \div 10) \o <<Digits[(n % 10) + 1]>>

\* ATTACHMENT_DOWNLOAD_DIR and its parent
Home == << <<"h">> >>
DownloadDir == Home \o << <<"d">> >>

\* base / s: s is parsed and appended; an absolute s replaces the base.
Join(base, s) ==
    IF s # <<>> /\ s[1] = "/" THEN Parts(s) ELSE base \o Parts(s)

\* ------------------------------------------------- the file system
Dir == [kind |-> "dir"]
File(b) == [kind |-> "file", bytes |-> b]
Put(f, p, e) == [q \in (DOMAIN f) \cup {p} |-> IF q = p THEN e ELSE f[q]]

\* Where the OS arrives following path components `rest` from directory cur:
\* ".." goes to the parent, every component passed through must be a
\* directory.
RECURSIVE Walk(_, _, _)
Walk(f, cur, rest) ==
    IF rest = <<>> THEN [ok |-> TRUE, at |-> cur]
    ELSE IF cur \notin DOMAIN f \/ f[cur].kind # "dir"
    THEN [ok |-> FALSE, at |-> cur]
    ELSE IF Head(rest) = <<".", ".">>
    THEN Walk(f, IF cur = <<>> THEN cur ELSE SubSeq(cur, 1, Len(cur) - 1),
              Tail(rest))
    ELSE Walk(f, Append(cur, Head(rest)), Tail(rest))

\* target_path.exists()
ExistsNever(f, path) == FALSE
Exists(f, path) == Walk(f, <<>>, path).ok /\ Walk(f, <<>>, path).at \in DOMAIN f

\* ATTACHMENT_DOWNLOAD_DIR.mkdir(parents=True, exist_ok=True)
Mkdir(f) ==
    [q \in (DOMAIN f) \cup {SubSeq(DownloadDir, 1, k) : k \in 0..Len(DownloadDir)}
        |-> IF q \in DOMAIN f THEN f[q] ELSE Dir]

\* target_path.write_bytes(b): the file is created or truncated and written;
\* OSError when the place cannot be reached or is a directory.
CanWrite(f, path) ==
    LET w == Walk(f, <<>>, path)
    IN  w.ok /\ (w.at \in DOMAIN f => f[w.at].kind = "file")
WriteBytes(f, path, b) == Put(f, Walk(f, <<>>, path).at, File(b))

\* The directory does not exist yet, or is there and empty; a file of the
\* user's lies next to it.
NoFs == [q \in {<<>>, Home, Home \o << <<"a", ".", "t">> >>} |->
            IF Len(q) = 2 THEN File("u") ELSE Dir]
InitialFs == {NoFs, Mkdir(NoFs)}

\* ------------------------------------------------- save_attachment_to_disk
\* The names a sender can suggest and the bytes of an attachment.
SuggestedNames ==
    { <<"a", ".", "t">>,
      <<".", ".", "/", ".", ".", "/", "a", ".", "t">>,
      <<"/", "a", ".", "t">>,
      <<"a", "_", "1", ".", "t">>,
      <<".", ".">>,
      <<>> }
Bytes == {"x", "y"}
DefaultName == <<"a", "t", "t", "a", "c", "h", "m", "e", "n", "t">>

NoSave == [kind |-> "none"]
NoRun == [name |-> <<"/">>, n |-> 0, clean |-> FALSE, first |-> <<>>]
PeerIdle == [pc |-> "idle", name |-> <<>>, content |-> "x", safe |-> <<>>,
             target |-> <<>>, counter |-> 0, ret |-> NoSave, n |-> 0]
SaveIdle ==
    /\ spc = "idle"
    /\ filename = <<>>
    /\ content = "x"
    /\ safe = <<>>
    /\ target = <<>>
    /\ counter = 0
    /\ sret = NoSave
    /\ before = fs
    /\ nsaves = 0
    /\ run = NoRun
    /\ peer = PeerIdle

\* f"{stem}_{counter}{suffix}", line 249-251
CandidateFromTwo(s, k) == Stem(s) \o <<"_">> \o Str(k + 1) \o Suffix(s)
Candidate(s, k) == Stem(s) \o <<"_">> \o Str(k) \o Suffix(s)

\* Sanitizing, line 241-243
SafeFilename(fn) == IF PathName(fn) = <<>> THEN DefaultName ELSE PathName(fn)

\* The name s with _k put before its extension.
Suffixed(s, k) == Stem(s) \o <<"_">> \o Str(k) \o Suffix(s)

\* Neither the sanitized name of fn nor any of its suffixed names is in use.
Unused(f, fn) ==
    /\ ~Exists(f, DownloadDir \o <<SafeFilename(fn)>>)
    /\ \A k \in 1..MaxSaves :
          ~Exists(f, DownloadDir \o <<Suffixed(SafeFilename(fn), k)>>)

\* An OSError leaving save_attachment_to_disk: nothing is returned.
OSError == [kind |-> "raise", exc |-> "OSError"]

\* save_attachment_to_disk(fn, b), line 238-247: the directory is made, the
\* name sanitized, the first target and the counter set.  mkdir may fail
\* (permissions, a read-only or full disk): its OSError ends the call.
SaveAttachment(fn, b) ==
    /\ spc = "idle"
    /\ nsaves < limit.saves
    /\ nsaves' = nsaves + 1
    /\ filename' = fn
    /\ content' = b
    /\ before' = fs
    /\ \E made \in BOOLEAN :
        IF made
        THEN /\ fs' = Mkdir(fs)
             /\ safe' = SafeFilename(fn)
             /\ target' = Join(DownloadDir, SafeFilename(fn))
             /\ counter' = 1
             /\ sret' = NoSave
             /\ run' = IF run.name = fn
                       THEN [run EXCEPT !.n = @ + 1]
                       ELSE [name |-> fn, n |-> 1,
                             clean |-> Unused(Mkdir(fs), fn), first |-> <<>>]
             /\ spc' = "loop"
        ELSE /\ sret' = OSError
             /\ safe' = <<>>
             /\ target' = <<>>
             /\ counter' = 0
             /\ run' = NoRun
             /\ UNCHANGED <<fs, spc>>
    /\ UNCHANGED <<peer, pipeVars>>

\* line 248-252: one test of the while condition, and one turn of the loop
\* when the target exists.
SaveProbe ==
    /\ spc = "loop"
    /\ IF Exists(fs, target)
       THEN /\ target' = Join(DownloadDir, Candidate(safe, counter))
            /\ counter' = counter + 1
            /\ spc' = spc
       ELSE /\ spc' = "write"
            /\ UNCHANGED <<target, counter>>
    /\ UNCHANGED <<fs, filename, content, safe, sret, before, nsaves, run,
                   peer, pipeVars>>

\* What write_bytes can do: write all the bytes; fail having created or
\* truncated the file and written only a part of them (here: none); fail
\* without touching anything.
Partial == ""
WriteOutcomes(f, path, b) ==
    IF CanWrite(f, path)
    THEN {[fs |-> WriteBytes(f, path, b), ok |-> TRUE],
          [fs |-> WriteBytes(f, path, Partial), ok |-> FALSE],
          [fs |-> f, ok |-> FALSE]}
    ELSE {[fs |-> f, ok |-> FALSE]}

\* line 255-256: write_bytes' OSError leaves the function; otherwise the
\* absolute path is returned.
AfterWriteSwallow(ok, path) == [kind |-> "value", path |-> path]
AfterWrite(ok, path) ==
    IF ok THEN [kind |-> "value", path |-> path] ELSE OSError

SaveWrite ==
    /\ spc = "write"
    /\ \E w \in WriteOutcomes(fs, target, content) :
        /\ fs' = w.fs
        /\ sret' = AfterWrite(w.ok, target)
        /\ run' = IF ~w.ok THEN NoRun
                  ELSE IF run.n = 1 THEN [run EXCEPT !.first = target]
                  ELSE run
    /\ spc' = "idle"
    /\ UNCHANGED <<filename, content, safe, target, counter, before, nsaves,
                   peer, pipeVars>>

SaveInit ==
    /\ PipelineInit
    /\ limit = [calls |-> MaxCalls, flows |-> MaxFlows, saves |-> MaxSaves]
    /\ file = Absent
    /\ fs \in InitialFs
    /\ SaveIdle

SaveNext ==
    \/ \E fn \in SuggestedNames, b \in Bytes : SaveAttachment(fn, b)
    \/ SaveProbe
    \/ SaveWrite

SaveSpec == SaveInit /\ [][SaveNext]_vars

\* ------------------------------------------------- a second server process
\* Another instance of the server (each client starts its own) saves into
\* the same ATTACHMENT_DOWNLOAD_DIR: the same function, its steps interleaved
\* by the operating system with those of this process.
PeerSave(fn, b) ==
    /\ peer.pc = "idle"
    /\ peer.n < MaxPeerSaves
    /\ fs' = Mkdir(fs)
    /\ peer' = [pc |-> "loop", name |-> fn, content |-> b,
                safe |-> SafeFilename(fn),
                target |-> Join(DownloadDir, SafeFilename(fn)),
                counter |-> 1, ret |-> NoSave, n |-> peer.n + 1]
    /\ UNCHANGED <<spc, filename, content, safe, target, counter, sret,
                   before, nsaves, run, pipeVars>>

PeerProbe ==
    /\ peer.pc = "loop"
    /\ peer' = IF Exists(fs, peer.target)
               THEN [peer EXCEPT
                       !.target = Join(DownloadDir, Candidate(peer.safe, peer.counter)),
                       !.counter = @ + 1]
               ELSE [peer EXCEPT !.pc = "write"]
    /\ UNCHANGED <<fs, spc, filename, content, safe, target, counter, sret,
                   before, nsaves, run, pipeVars>>

PeerWrite ==
    /\ peer.pc = "write"
    /\ \E w \in WriteOutcomes(fs, peer.target, peer.content) :
        /\ fs' = w.fs
        /\ peer' = [peer EXCEPT !.pc = "idle",
                                !.ret = AfterWrite(w.ok, peer.target)]
    /\ UNCHANGED <<spc, filename, content, safe, target, counter, sret,
                   before, nsaves, run, pipeVars>>

\* Two server processes saving attachments of the same names.
RaceNext ==
    \/ \E fn \in SuggestedNames, b \in Bytes : SaveAttachment(fn, b)
    \/ SaveProbe
    \/ SaveWrite
    \/ \E fn \in SuggestedNames, b \in Bytes : PeerSave(fn, b)
    \/ PeerProbe
    \/ PeerWrite

RaceInit ==
    /\ PipelineInit
    /\ limit = [calls |-> MaxCalls, flows |-> MaxFlows, saves |-> MaxRaceSaves]
    /\ file = Absent
    /\ fs \in InitialFs
    /\ SaveIdle

RaceSpec == RaceInit /\ [][RaceNext]_vars


\* ------------------------------------------------- outlook_mcp_auth.py
\* The auth script is another process sharing TOKEN_CACHE_PATH with the
\* server.  It reads and writes the file in one piece, between the server's
\* operations.

\* main, line 131-159: the script loads the file into its own cache; with an
\* account there it tries the silent acquisition and, given a token, stores
\* the cache if it changed and returns; otherwise it begins a flow and
\* listens on localhost:5000.  An exception of the library ends the script.
MainStart ==
    /\ mainpc = "off"
    /\ running = {}
    /\ LET c == LoadCache(file)
       IN  IF c.acct
           THEN \E o \in AcquireTokenSilent(c) :
                /\ scache' = o.cache
                /\ nextTok' = (IF o.tok = nextTok THEN nextTok + 1 ELSE nextTok)
                /\ IF o.raised
                   THEN mainpc' = "crashed" /\ UNCHANGED file
                   ELSE IF HasAccessToken(o.tok)
                   THEN /\ mainpc' = "exit0"
                        /\ file' = (IF o.cache # c THEN Serialize(o.cache)
                                    ELSE file)
                   ELSE mainpc' = "listening" /\ UNCHANGED file
           ELSE /\ scache' = c
                /\ mainpc' = "listening"
                /\ UNCHANGED <<file, nextTok>>
    /\ UNCHANGED <<running, pc, op, cache, dirty, expired, pendingFlow,
                   consumed, nextFlow, calls, everChanged, last, httpVars,
                   localVars, ret, out, logVars, shutVars, saveVars, limit,
                   auth_code, reply>>

\* What the browser can request from the listener: the provider's redirect
\* with a code, its redirect with an error, anything else.
Requests == {"code", "error", "other"}

\* The code the provider hands to the script's flow.
ScriptCode == 1

\* server.handle_request() serves one request with CallbackHandler.do_GET
\* (line 52-83), then the loop tests `CallbackHandler.auth_code is None`
\* (line 221): only a code ends the loop.
DoGet(q) ==
    /\ mainpc = "listening"
    /\ auth_code' = (IF q = "code" THEN ScriptCode ELSE auth_code)
    /\ reply' = (IF q = "code" THEN 200 ELSE IF q = "error" THEN 400 ELSE 404)
    /\ mainpc' = (IF auth_code' = 0 THEN "listening" ELSE "exchange")
    /\ UNCHANGED <<running, pc, op, cache, dirty, file, expired, pendingFlow,
                   consumed, nextTok, nextFlow, calls, everChanged, last,
                   httpVars, localVars, ret, out, logVars, shutVars, saveVars,
                   limit, scache>>

\* main, line 227-245: the code is exchanged; with an access token the
\* script's cache (now holding the account) is written over the file, else
\* the script exits with status 1.
Exchange ==
    /\ mainpc = "exchange"
    /\ running = {}
    /\ \E ok \in BOOLEAN :
        IF ok /\ nextTok <= MaxTok
        THEN /\ scache' = [scache EXCEPT !.acct = TRUE, !.user = nextTok]
             /\ file' = Serialize(scache')
             /\ nextTok' = nextTok + 1
             /\ mainpc' = "exit0"
        ELSE /\ mainpc' = "exit1"
             /\ UNCHANGED <<scache, file, nextTok>>
    /\ UNCHANGED <<running, pc, op, cache, dirty, expired, pendingFlow,
                   consumed, nextFlow, calls, everChanged, last, httpVars,
                   localVars, ret, out, logVars, shutVars, saveVars, limit,
                   auth_code, reply>>

\* ------------------------------------------------- the manager on its own
\* An AuthManager used directly (get_token, get_auth_url, complete_auth),
\* with the auth script run beside it.
AuthInit ==
    /\ PipelineInit
    /\ limit = [calls |-> MaxAuthCalls, flows |-> MaxAuthFlows, saves |-> MaxSaves]
    /\ fs = NoFs
    /\ SaveIdle

AuthNext ==
    \/ \E t \in Tasks :
        \/ StartGetToken(t)
        \/ GetAccounts(t)
        \/ SilentReturn(t)
        \/ AppReturn(t)
        \/ SaveCache(t)
        \/ OpenFile(t)
        \/ WriteChunk(t)
        \/ CloseFile(t)
        \/ Finish(t)
        \/ GetAuthUrl(t)
        \/ CompleteAuth(t)
    \/ Expire
    \/ MainStart
    \/ \E q \in Requests : DoGet(q)
    \/ Exchange

AuthSpec == AuthInit /\ [][AuthNext]_vars

\* ------------------------------------------------- shutdown
\* app_lifespan, line 52-54: the server's run has ended (no call is in
\* progress) and the lifespan resumes after its yield: graph.close() is
\* awaited.  close(), line 125: only an open transport is closed.
ShouldCloseNever(c) == FALSE
ShouldClose(c) == c = "open"

Shutdown ==
    /\ life = "serving"
    /\ running = {}
    /\ \A t \in Tasks : pc[t] = "idle"
    /\ life' = (IF ShouldClose(client) THEN "closing" ELSE "stopped")
    /\ UNCHANGED <<running, pc, op, calls, cache, dirty, file, pendingFlow,
                   consumed, nextTok, nextFlow, expired, everChanged, last,
                   httpVars, localVars, ret, out, logVars, transports,
                   saveVars, scriptVars>>

\* close(), line 126: aclose() has completed.
CloseDone ==
    /\ life = "closing"
    /\ client' = "closed"
    /\ transports' = transports - 1
    /\ life' = "stopped"
    /\ UNCHANGED <<running, pc, op, calls, cache, dirty, file, pendingFlow,
                   consumed, nextTok, nextFlow, expired, everChanged, last,
                   net, resp, localVars, ret, out, logVars, saveVars,
                   scriptVars>>

\* The server has started; no attachment is being saved.
Init ==
    /\ PipelineInit
    /\ limit = [calls |-> MaxCalls, flows |-> MaxFlows, saves |-> MaxSaves]
    /\ fs = NoFs
    /\ SaveIdle

Next ==
    \/ \E t \in Tasks :
        \/ StartRequest(t)
        \/ GetAccounts(t)
        \/ SilentReturn(t)
        \/ AppReturn(t)
        \/ SaveCache(t)
        \/ OpenFile(t)
        \/ WriteChunk(t)
        \/ CloseFile(t)
        \/ GetClient(t)
        \/ SendRequest(t)
        \/ Respond(t)
        \/ Resume(t)
        \/ Finish(t)
        \/ GetAuthUrl(t)
        \/ CompleteAuth(t)
    \/ Expire
    \/ Shutdown
    \/ CloseDone

Spec == Init /\ [][Next]_vars

\* ------------------------------------------------- reading a call's outcome
\* The positions inside get_token, complete_auth and _save_cache.
InManager == {"get_accounts", "silent", "app", "save", "open", "write1",
              "write2", "close"}

Raised(t, ty) == ret[t].kind = "raise" /\ ret[t].exc.type = ty

\* get_token failed with its own RuntimeError (the spec's AuthRequired).
AuthRequired(t) ==
    /\ op[t] = "request"
    /\ Raised(t, "RuntimeError")
    /\ ret[t].exc.msg = AuthRequiredMsg

\* ------------------------------------------------- C1
\* C1: get_token tries silent acquisition first and only with an account in
\* the cache, tries app-only acquisition only when the silent step was not
\* taken or gave no access token, and raises AuthRequired only after the
\* app-only step (and the silent step, if taken) gave no access token.
C1_SourceOrder ==
    \A t \in Tasks :
        /\ pc[t] = "silent" => cache.acct /\ tried[t] = <<>>
        /\ \A i \in DOMAIN tried[t] :
              tried[t][i].src = "silent" => i = 1 /\ held[t].acct
        /\ pc[t] = "app" =>
              \/ tried[t] = <<>>
              \/ tried[t] = <<[src |-> "silent", tok |-> NoTok]>>
        /\ AuthRequired(t) =>
              /\ tried[t] # <<>>
              /\ tried[t][Len(tried[t])].src = "app"
              /\ \A i \in DOMAIN tried[t] : ~HasAccessToken(tried[t][i].tok)

\* Both sources were tried, neither gave a token, and the call failed.
C1_Witness ==
    \E t \in Tasks :
        /\ AuthRequired(t)
        /\ tried[t] = <<[src |-> "silent", tok |-> NoTok],
                        [src |-> "app", tok |-> NoTok]>>

\* ------------------------------------------------- C2
\* C2: whenever no get_token or complete_auth call is in progress, the dirty
\* flag is clear and, once the cache has changed, the TokenStore file holds
\* the serialized in-memory cache.
C2_PersistedWhenIdle ==
    (\A t \in Tasks : pc[t] \notin InManager) =>
        /\ ~dirty
        /\ everChanged => file = Serialize(cache)

\* ------------------------------------------------- C3
Toks(c) == {c.user, c.app} \ {NoTok}

\* The token of the source get_token consults first for cache c: the cached
\* account's access token, or the app-only token when no account is cached.
FirstSourceToken(c) == IF c.acct THEN c.user ELSE c.app

\* get_token has just returned to request, and the latest AuthManager
\* activity before this call was a get_token call that returned a token.
SecondOfTwo(t) == pc[t] = "get_client" /\ prev[t].kind = "token"

\* C3 as stated: of two successive get_token calls made while the cache holds
\* one and the same unexpired token, the second returns the first's bearer
\* and writes nothing to the TokenStore file.
C3_AnyUnexpiredToken ==
    \A t \in Tasks :
        ( /\ SecondOfTwo(t)
          /\ \E k \in Toks(prev[t].held) \cap Toks(held[t]) : k \notin expired )
        => token[t] = prev[t].tok /\ ~wrote[t]

\* C3 amended: the same when the unexpired token is the one of the source
\* get_token consults first (the account's access token when an account is
\* cached, the app-only token when none is).
C3_FirstSourceUnexpired ==
    \A t \in Tasks :
        ( /\ SecondOfTwo(t)
          /\ FirstSourceToken(held[t]) # NoTok
          /\ FirstSourceToken(held[t]) \notin expired
          /\ FirstSourceToken(prev[t].held) = FirstSourceToken(held[t]) )
        => token[t] = prev[t].tok /\ ~wrote[t]

\* A second successive call has returned the first call's bearer from the
\* cached account's unexpired access token.
C3_Witness ==
    \E t \in Tasks :
        /\ SecondOfTwo(t)
        /\ held[t].acct
        /\ held[t].user # NoTok
        /\ held[t].user \notin expired
        /\ prev[t].held.user = held[t].user
        /\ token[t] = prev[t].tok

\* ------------------------------------------------- C4
\* C4: a write of the TokenStore file changes its content (the cache changed
\* after the previous write), and a call that left the cache unchanged has
\* left the file unchanged.
C4_NoRedundantWrite ==
    \A t \in Tasks :
        /\ pc[t] = "open" =>
              data[t] # (IF file = Absent THEN Serialize(EmptyCache) ELSE file)
        /\ wrote[t] => changed[t]

\* ------------------------------------------------- C5
\* C5: at most one write of the TokenStore file is in progress at any time,
\* and when a writer closes the file it holds exactly that writer's blob.
C5_WritesSerialized ==
    /\ Cardinality(Writers) <= 1
    /\ \A t \in Tasks : pc[t] = "close" => file = data[t]

\* One call is writing the cache while another, which has acquired its
\* token, is in flight.
C5_Witness ==
    \E t, u \in Tasks :
        /\ t # u
        /\ pc[t] = "write2"
        /\ pc[u] = "http_wait"
        /\ token[u] # NoTok

\* ------------------------------------------------- C6
\* C6: while one call is inside a provider call of get_token, another call
\* whose awaited response has arrived can take its next step.
C6_AcquisitionDoesNotBlock ==
    \A t, u \in Tasks :
        (t # u /\ pc[t] \in {"silent", "app"} /\ pc[u] = "http_wait" /\ resp[u])
        => ENABLED Resume(u)

\* ------------------------------------------------- C7
\* C7: every HTTP request sent carries the bearer that the one get_token call
\* of the same request returned; when get_token fails with AuthRequired the
\* call ends with that failure, has sent nothing and has called get_token
\* once.
C7_BearerFromGetToken ==
    \A t \in Tasks :
        /\ net[t].kind = "request" =>
              /\ Len(acq[t]) = 1
              /\ HasAccessToken(net[t].headers.Authorization[2])
              /\ acq[t][1] = ToString(net[t].headers.Authorization[2])
              /\ net[t].headers.Authorization[1] = "Bearer"
              /\ nHttp[t] = 1
        /\ net[t].kind # "request" => nHttp[t] = 0
        /\ (acq[t] # <<>> /\ acq[t][Len(acq[t])] = "RuntimeError") =>
              /\ acq[t] = <<"RuntimeError">>
              /\ pc[t] = "done"
              /\ AuthRequired(t)
              /\ out[t] = ToolResult(handle_graph_error(RuntimeError))
              /\ net[t] = NoReq

\* One call has its request in flight while another has failed with
\* AuthRequired.
C7_Witness ==
    \E t, u \in Tasks :
        /\ net[t].kind = "request"
        /\ pc[t] = "http_wait"
        /\ AuthRequired(u)

\* ------------------------------------------------- C8
\* The kind a caller reads off a tool's error text: the fixed text it opens
\* with (the only place where the code puts the classification).
KindOfText(text) ==
    CASE text[1] = Msg401 -> "Unauthorized"
      [] text[1] = Msg403 -> "Forbidden"
      [] text[1] = Msg404 -> "NotFound"
      [] text[1] = Msg429 -> "RateLimited"
      [] text[1] = MsgTimeout -> "Timeout"
      [] text[1] = "Error " -> "ProviderError"
      [] OTHER -> "Other"

\* The taxonomy's kind for a non-2xx status.
StatusKind(status) ==
    CASE status = 401 -> "Unauthorized"
      [] status = 403 -> "Forbidden"
      [] status = 404 -> "NotFound"
      [] status = 429 -> "RateLimited"
      [] OTHER -> "ProviderError"

\* C8: a call that failed on a non-2xx status returns the error of the kind
\* the taxonomy gives that status: Unauthorized, Forbidden, NotFound and
\* RateLimited for 401, 403, 404 and 429, ProviderError for 500 and the rest.
C8_KindByStatus ==
    \A t \in Tasks :
        Raised(t, "HTTPStatusError") =>
            KindOfText(out[t].text) = StatusKind(ret[t].exc.response.status)

\* A call has failed on a 403.
C8_Witness ==
    \E t \in Tasks :
        /\ Raised(t, "HTTPStatusError")
        /\ ret[t].exc.response.status = 403
        /\ KindOfText(out[t].text) = "Forbidden"

\* ------------------------------------------------- C9
\* int(): the number a string of decimal digits denotes.
DigitVal(ch) == CHOOSE d \in 0..9 : Digits[d + 1] = ch

RECURSIVE ParseInt(_)
ParseInt(str) ==
    IF str = <<>> THEN 0
    ELSE ParseInt(SubSeq(str, 1, Len(str) - 1)) * 10 + DigitVal(str[Len(str)])

\* The retry hint of a rate-limit text: what stands between "Retry after "
\* and " seconds.".
RetryHint(text) == ParseInt(SubSeq(text, 2, Len(text) - 1))

\* C9: the retry hint of the error given for a 429 is the number the
\* response's Retry-After header denotes, and 60 when there is no header.
C9_RetryHint ==
    \A t \in Tasks :
        (Raised(t, "HTTPStatusError") /\ ret[t].exc.response.status = 429) =>
            RetryHint(out[t].text) =
                (IF ret[t].exc.response.retry = <<>>
                 THEN 60
                 ELSE ParseInt(ret[t].exc.response.retry[1]))

\* A call has failed on a 429 that carried no Retry-After header.
C9_Witness ==
    \E t \in Tasks :
        /\ Raised(t, "HTTPStatusError")
        /\ ret[t].exc.response.status = 429
        /\ ret[t].exc.response.retry = <<>>
        /\ RetryHint(out[t].text) = 60

\* ------------------------------------------------- C10
\* What a result holds besides its message text.
Structured(r) == [f \in (DOMAIN r) \ {"text"} |-> r[f]]

GenericFailure ==
    HTTPStatusError([kind |-> "response", status |-> 500, body |-> "json",
                     retry |-> <<>>])

\* C10: the result of a call that timed out or was rate-limited differs from
\* the result of a generic failure in something other than the message text.
C10_KindIsStructured ==
    \A t \in Tasks :
        ( \/ Raised(t, "TimeoutException")
          \/ (Raised(t, "HTTPStatusError") /\ ret[t].exc.response.status = 429) )
        => Structured(out[t]) #
               Structured(ToolResult(handle_graph_error(GenericFailure)))

\* ------------------------------------------------- C11
\* The fixed texts handle_graph_error's messages open with.
ErrorOpenings ==
    {Msg401, Msg403, Msg404, Msg429, MsgTimeout, "Error ", "Error: "}

\* C11: a tool call in which token acquisition, the HTTP call, the status
\* check or the decoding raised has ended, and its caller has the text
\* handle_graph_error gives for that exception: a non-empty text that opens
\* as an error message; and every ended tool call has given its caller a text.
C11_FailureReported ==
    \A t \in Tasks :
        /\ (op[t] = "request" /\ ret[t].kind = "raise") =>
              /\ pc[t] = "done"
              /\ out[t] = ToolResult(handle_graph_error(ret[t].exc))
              /\ out[t].text # <<>>
              /\ out[t].text[1] \in ErrorOpenings
              /\ \A i \in DOMAIN out[t].text : out[t].text[i] # ""
        /\ (op[t] = "request" /\ pc[t] = "done") => out[t] # NoOut

\* A call has failed in decoding the response.
C11_Witness ==
    \E t \in Tasks :
        /\ Raised(t, "JSONDecodeError")
        /\ out[t].text[1] = "Error: "

\* ------------------------------------------------- C12
\* C12: no call ends with a decode error on a success response whose body
\* is empty.
C12_EmptySuccessIsSentinel ==
    \A t \in Tasks :
        ~(Raised(t, "JSONDecodeError") /\ ret[t].exc.doc = "empty")

\* ------------------------------------------------- C13
\* C13: a call whose request timed out returns the Timeout text, which is
\* the text of no HTTP status failure, and has sent its request once.
C13_TimeoutKind ==
    \A t \in Tasks :
        Raised(t, "TimeoutException") =>
            /\ KindOfText(out[t].text) = "Timeout"
            /\ \A r \in Responses :
                  (r.kind = "response" /\ ~IsSuccess(r.status)) =>
                      out[t] # ToolResult(handle_graph_error(HTTPStatusError(r)))
            /\ nHttp[t] = 1
            /\ Len(acq[t]) = 1

\* A call has timed out.
C13_Witness ==
    \E t \in Tasks :
        /\ Raised(t, "TimeoutException")
        /\ out[t].text = <<MsgTimeout>>

\* ------------------------------------------------- C14
\* C14: a call that ends with the 401 error has obtained a token a second
\* time before, and has sent its request at most twice.
C14_ReacquiresOn401 ==
    \A t \in Tasks :
        (Raised(t, "HTTPStatusError") /\ ret[t].exc.response.status = 401) =>
            /\ Len(acq[t]) = 2
            /\ nHttp[t] <= 2

\* ------------------------------------------------- C15
\* C15: a call that ends on a response other than 401, or on the timeout,
\* has sent exactly one request and obtained a token once.
C15_NoInternalRetry ==
    \A t \in Tasks :
        ( /\ pc[t] = "done"
          /\ net[t].kind = "request"
          /\ ~(Raised(t, "HTTPStatusError") /\ ret[t].exc.response.status = 401) )
        => nHttp[t] = 1 /\ Len(acq[t]) = 1

\* A call has ended on a 429.
C15_Witness ==
    \E t \in Tasks :
        /\ pc[t] = "done"
        /\ Raised(t, "HTTPStatusError")
        /\ ret[t].exc.response.status = 429
        /\ nHttp[t] = 1

\* ------------------------------------------------- C16
\* C16: there is no transport before the first call; there is never more
\* than one open transport, and GraphClient._client is that one.
C16_OneTransport ==
    /\ calls = 0 => client = "none"
    /\ client = "none" => transports = 0
    /\ transports <= 1
    /\ transports = 1 <=> client = "open"

\* Two concurrent calls have their requests in flight on the one transport.
C16_Witness ==
    /\ transports = 1
    /\ \E t, u \in Tasks : t # u /\ pc[t] = "http_wait" /\ pc[u] = "http_wait"

Saved == spc = "idle" /\ sret.kind = "value"
IsChild(p) ==
    Len(p) = Len(DownloadDir) + 1 /\ SubSeq(p, 1, Len(DownloadDir)) = DownloadDir
Last(p) == p[Len(p)]
\* The last component of a suggested name: what follows its last "/".
LastPiece(fn) == Split(fn)[Len(Split(fn))]

\* ------------------------------------------------- C18
\* C18: every file outside the download directory is as it was at the start;
\* every path tried, written or returned is a direct child of the directory
\* whose name holds no separator and is the suggested name's last component
\* ("attachment" when that is empty), with or without a numeric suffix.
C18_InsideDirectory ==
    /\ \A p \in DOMAIN fs :
          fs[p].kind = "file" => (IsChild(p) \/ (p \in DOMAIN NoFs /\ fs[p] = NoFs[p]))
    /\ \A p \in DOMAIN fs :
          fs[p].kind = "dir" => \E k \in 0..Len(DownloadDir) : p = SubSeq(DownloadDir, 1, k)
    /\ spc # "idle" \/ sret.kind = "value" =>
          /\ IsChild(target)
          /\ \A i \in DOMAIN Last(target) : Last(target)[i] # "/"
          /\ LET n == IF LastPiece(filename) = <<>> THEN DefaultName
                      ELSE LastPiece(filename)
             IN  \/ Last(target) = n
                 \/ \E k \in 1..(MaxSaves + 1) : Last(target) = Suffixed(n, k)
    /\ Saved => sret.path = target /\ target \in DOMAIN fs

\* "../../a.t" has been saved as a.t in the download directory.
C18_Witness ==
    /\ Saved
    /\ filename = <<".", ".", "/", ".", ".", "/", "a", ".", "t">>
    /\ sret.path = DownloadDir \o << <<"a", ".", "t">> >>
    /\ fs[sret.path] = File(content)

\* ------------------------------------------------- C19
\* C19: every file that existed when a save started is there with the same
\* bytes; the path returned was unused when the save started; and the second
\* of two successive saves of one name returns a path other than the
\* first's, with a numeric suffix, the first's file being as it was written.
C19_NeverOverwrites ==
    /\ \A p \in DOMAIN before : p \in DOMAIN fs /\ fs[p] = before[p]
    /\ Saved => sret.path \notin DOMAIN before
    /\ (Saved /\ run.n = 2) =>
          /\ sret.path # run.first
          /\ \E k \in 1..(MaxSaves + 1) : Last(sret.path) = Suffixed(safe, k)
          /\ run.first \in DOMAIN before
          /\ fs[run.first] = before[run.first]

\* One name has been saved twice, with different bytes.
C19_Witness ==
    /\ Saved
    /\ run.n = 2
    /\ fs[run.first].kind = "file"
    /\ fs[sret.path].kind = "file"
    /\ fs[run.first].bytes # fs[sret.path].bytes

\* ------------------------------------------------- C20
\* The path the rule gives in file system f for suggested name fn: the
\* sanitized name when unused, else the suffixed name of the least k >= 1
\* that is unused.
Expected(f, fn) ==
    LET s == SafeFilename(fn)
        free(k) == ~Exists(Mkdir(f), DownloadDir \o <<Suffixed(s, k)>>)
    IN  IF ~Exists(Mkdir(f), DownloadDir \o <<s>>) THEN DownloadDir \o <<s>>
        ELSE DownloadDir \o
               <<Suffixed(s, CHOOSE k \in 1..Cardinality(DOMAIN Mkdir(f)) :
                                free(k) /\ \A j \in 1..(k - 1) : ~free(j))>>

\* The name the n-th of a run of successive saves of one name gets, by the
\* claim: the sanitized name, then suffixes _1, _2, ...
NthName == IF run.n = 1 THEN safe ELSE Suffixed(safe, run.n - 1)

\* C20 as stated: the path returned is the one the rule gives for the
\* directory contents and the suggested name, the loop ends within as many
\* turns as there are entries, and the n-th of successive saves of one name
\* gets suffix _(n-1).
C20_NthSaveSuffix ==
    /\ spc = "loop" => counter <= Cardinality(DOMAIN fs)
    /\ Saved => sret.path = Expected(before, filename)
    /\ Saved => Last(sret.path) = NthName

\* C20 amended: the same, the n-th save getting suffix _(n-1) when neither
\* the sanitized name nor any of its suffixed names was in use before the
\* first of the successive saves.
C20_SmallestUnusedSuffix ==
    /\ spc = "loop" => counter <= Cardinality(DOMAIN fs)
    /\ Saved => sret.path = Expected(before, filename)
    /\ (Saved /\ run.clean) => Last(sret.path) = NthName

\* The third successive save of a name unused before has got suffix _2.
C20_Witness ==
    /\ Saved
    /\ run.clean
    /\ run.n = 3
    /\ Last(sret.path) = Suffixed(safe, 2)

\* ------------------------------------------------- C21
\* C21: no path is returned while the call is still running; a save that
\* returned a path left at that path a file holding exactly the bytes passed
\* in; a save whose mkdir or write failed (the target is not a file holding
\* the bytes passed in) ended with OSError, which carries no path.
C21_PathOnlyAfterWrite ==
    /\ spc # "idle" => sret = NoSave
    /\ Saved => /\ sret.path \in DOMAIN fs
                /\ fs[sret.path] = File(content)
    /\ (spc = "idle" /\ nsaves > 0
          /\ (target \notin DOMAIN fs \/ fs[target] # File(content))) =>
          /\ sret.kind = "raise"
          /\ sret.exc = "OSError"
          /\ DOMAIN sret = {"kind", "exc"}

\* A write has failed half way: the truncated file is there and the call
\* ended with OSError.
C21_Witness ==
    /\ spc = "idle"
    /\ sret = OSError
    /\ target \in DOMAIN fs
    /\ fs[target] = File(Partial)
    /\ target \notin DOMAIN before

\* ------------------------------------------------- reading the manager
\* A get_token call made on the manager has ended.
TokenCallDone(t) == op[t] = "get_token" /\ pc[t] = "done"
ReturnedToken(t) == ret[t].kind = "value" /\ HasAccessToken(ret[t].value)
\* An authorization has been completed on this manager: its code is redeemed.
Authorized == consumed # {}
\* The TokenStore file is there, whole and not empty.
FileWhole ==
    /\ file # Absent
    /\ Len(file) = 2
    /\ \A i \in DOMAIN file : file[i].section \in {"Account", "AccessToken"}

\* ------------------------------------------------- C22
\* C22 as stated: with no account in the cache and no app-only token to be
\* had, get_token ends with the RuntimeError asking for the auth setup; once
\* complete_auth has succeeded, every get_token that ends has returned a
\* token, and the file is there and not empty between operations.
C22_EveryLaterCallReturnsToken ==
    /\ \A t \in Tasks :
          (TokenCallDone(t) /\ ~held[t].acct
             /\ tried[t] = <<[src |-> "app", tok |-> NoTok]>>
             /\ ~Raised(t, "ConnectionError")) =>
          (Raised(t, "RuntimeError") /\ ret[t].exc.msg = AuthRequiredMsg)
    /\ \A t \in Tasks : (TokenCallDone(t) /\ Authorized) => ReturnedToken(t)
    /\ (Authorized /\ running = {}) => (FileWhole /\ Deserialize(file).acct)

\* C22 amended: the same, a later get_token returning a token when the access
\* token in the cache is unexpired: it returns that token, after the silent
\* step alone.
C22_LaterCallReturnsUnexpiredToken ==
    /\ \A t \in Tasks :
          (TokenCallDone(t) /\ ~held[t].acct
             /\ tried[t] = <<[src |-> "app", tok |-> NoTok]>>
             /\ ~Raised(t, "ConnectionError")) =>
          (Raised(t, "RuntimeError") /\ ret[t].exc.msg = AuthRequiredMsg)
    /\ \A t \in Tasks :
          (TokenCallDone(t) /\ Authorized /\ Live(held[t].user)) =>
          /\ ReturnedToken(t)
          /\ ret[t].value = held[t].user
          /\ tried[t] = <<[src |-> "silent", tok |-> held[t].user]>>
    /\ (Authorized /\ running = {}) => (FileWhole /\ Deserialize(file).acct)

\* After a completed authorization, get_token has returned the token the
\* exchange put into the cache, which is also in the file.
C22_Witness ==
    \E t \in Tasks :
        /\ TokenCallDone(t)
        /\ Authorized
        /\ Live(held[t].user)
        /\ ReturnedToken(t)
        /\ FileWhole
        /\ Deserialize(file) = cache
        /\ mainpc = "off"

\* ------------------------------------------------- C23
\* The complete_auth call t was given a code already redeemed.
SpentCode(t) ==
    /\ op[t] = "complete_auth"
    /\ tried[t] # <<>>
    /\ tried[t][1].spent

\* C23: a complete_auth given an already redeemed code ends by returning the
\* provider's error result (no exception), with the cache in memory as it was
\* when the call began and without having written the file.
C23_SpentCodeChangesNothing ==
    \A t \in Tasks :
        SpentCode(t) =>
            /\ cache = held[t]
            /\ ~wrote[t]
            /\ pc[t] = "done" =>
                  ret[t] = [kind |-> "value", value |-> NoTok]

\* ------------------------------------------------- C24
\* C24: once a complete_auth call has ended, the manager holds no flow
\* state; and nothing in the file is a flow.
C24_FlowStateDestroyed ==
    /\ \A t \in Tasks :
          (op[t] = "complete_auth" /\ pc[t] = "done") => pendingFlow = {}
    /\ file # Absent =>
          \A i \in DOMAIN file :
              file[i].section \in {"Account", "AccessToken", "hole"}

\* ------------------------------------------------- C25
\* The authorizations begun and not completed.
OpenFlows == (1..(nextFlow - 1)) \ consumed

\* C25: a complete_auth given the callback of an authorization that was
\* begun and is not completed is not rejected for a state mismatch (it is
\* completed with that authorization's own flow).
C25_OwnFlowUsed ==
    \A t \in Tasks :
        (op[t] = "complete_auth" /\ Raised(t, "ValueError")) =>
            ret[t].exc.got \notin OpenFlows

\* ------------------------------------------------- C26
\* The tools server.py registers with @mcp.tool.
RegisteredTools ==
    {"outlook_list_mail", "outlook_get_mail", "outlook_send_mail",
     "outlook_create_draft", "outlook_reply_mail", "outlook_move_mail",
     "outlook_update_mail", "outlook_list_folders", "outlook_list_events",
     "outlook_get_event", "outlook_create_event", "outlook_update_event",
     "outlook_delete_event", "outlook_respond_event",
     "outlook_list_calendars", "outlook_get_profile"}

\* The names test_tools_list expects in the answer to tools/list.
ExpectedTools ==
    {"outlook_list_mail", "outlook_get_mail", "outlook_send_mail",
     "outlook_create_draft", "outlook_reply_mail", "outlook_move_mail",
     "outlook_update_mail", "outlook_list_folders",
     "outlook_list_attachments", "outlook_get_attachment",
     "outlook_list_events", "outlook_get_event", "outlook_create_event",
     "outlook_update_event", "outlook_delete_event", "outlook_respond_event",
     "outlook_list_calendars", "outlook_get_profile"}

\* The answer to tools/list: every registered tool, with the properties of
\* its input schema (the params argument; ctx is injected, not exposed).
ToolsList ==
    [name \in RegisteredTools |->
        IF name = "outlook_get_profile" THEN {} ELSE {"params"}]

\* C26: while the server serves, the catalogue it answers tools/list with
\* holds every name the test expects, and no tool's input schema has ctx.
C26_CatalogueComplete ==
    life = "serving" =>
        /\ ExpectedTools \subseteq DOMAIN ToolsList
        /\ \A name \in DOMAIN ToolsList : "ctx" \notin ToolsList[name]

\* ------------------------------------------------- C27
\* C27: once the listener has answered a redirect carrying a code or an
\* error, the script is no longer waiting for a callback.
C27_ListenerOneShot ==
    reply \in {200, 400} => mainpc # "listening"

\* ------------------------------------------------- C28
\* C28: get_token tries the silent step first exactly when the cache in
\* memory held an account when the call began, whatever the file holds by
\* then; and a write of the manager that has put out all its data leaves
\* the file holding the manager's cache and nothing else.
C28_FileReadOnce ==
    /\ \A t \in Tasks :
          (op[t] = "get_token" /\ tried[t] # <<>>) =>
              (tried[t][1].src = "silent" <=> held[t].acct)
    /\ \A t \in Tasks : pc[t] = "close" => file = Serialize(cache)

\* The auth script has stored an account; the manager, whose cache has none,
\* has got an app-only token and written its cache over the file: the
\* account is gone from the file.
C28_Witness ==
    \E t \in Tasks :
        /\ op[t] = "get_token"
        /\ pc[t] = "close"
        /\ mainpc = "exit0"
        /\ scache.acct
        /\ ~cache.acct
        /\ tried[t] = <<[src |-> "app", tok |-> cache.app]>>
        /\ ~Deserialize(file).acct

\* ------------------------------------------------- C29
\* C29: two saves of one suggested name, one in each process, that have both
\* returned a path have returned different paths, and each path holds the
\* bytes of its own call.
C29_ConcurrentSavesDistinct ==
    (Saved /\ peer.pc = "idle" /\ peer.ret.kind = "value"
       /\ peer.name = filename) =>
        /\ sret.path # peer.ret.path
        /\ fs[sret.path] = File(content)
        /\ fs[peer.ret.path] = File(peer.content)

\* ------------------------------------------------- C30
\* C30: a complete_auth call made when get_auth_url has never run ends with
\* the AttributeError of reading _pending_flow, the provider not having been
\* called, the cache in memory as it was and the file not written.
C30_NoFlowNoCompletion ==
    \A t \in Tasks :
        (op[t] = "complete_auth" /\ nextFlow = 1) =>
            /\ pc[t] = "done"
            /\ Raised(t, "AttributeError")
            /\ tried[t] = <<>>
            /\ cache = held[t]
            /\ ~changed[t]
            /\ ~wrote[t]

\* complete_auth has been called on a manager on which no flow was begun,
\* after a get_token that put an app-only token into the cache and the file.
C30_Witness ==
    \E t \in Tasks :
        /\ op[t] = "complete_auth"
        /\ nextFlow = 1
        /\ Raised(t, "AttributeError")
        /\ cache.app # NoTok
        /\ FileWhole

====
